---- MODULE Spec2Model ----
(***************************************************************************)
(* Model of the video-analysis service of src/main.py: the frame sampler   *)
(* (extract_video_frames), the remote analysis call and its error          *)
(* classifier (analyze_with_gemini), and the two upload handlers           *)
(* (POST /infer, POST /test) with their temporary files.                   *)
(*                                                                         *)
(* Texts (str values) are sequences of pieces.  A piece is either one      *)
(* character (the remote failure messages are spelled out character by     *)
(* character, because the classifier lower-cases them and searches them    *)
(* for substrings) or a whole literal of the source.                       *)
(***************************************************************************)
EXTENDS Integers, Sequences, FiniteSets

VARIABLES
    GOOGLE_API_KEY,  \* the credential read at process start ("" when unset)
    remote,          \* what model.generate_content does when it is called
    fs,              \* the temporary directory: name -> file, or NoFile
    req,             \* the requests being handled, one record each
    sampler,         \* one call of extract_video_frames on its own
    classifier       \* one failure of the remote call on its own

vars == <<GOOGLE_API_KEY, remote, fs, req, sampler, classifier>>

(***************************************************************************)
(* Bounds of the model.                                                    *)
(***************************************************************************)
MaxFrameCount == 30   \* largest frame count of a sampled video
MaxCap == 22          \* largest max_frames passed to extract_video_frames
MaxBad == 3           \* undecodable frames are drawn from the first MaxBad
MaxWords == 3         \* words in a remote failure message
NumRequests == 2      \* concurrently handled requests
NumNames == 2         \* names the temporary directory can hand out

(***************************************************************************)
(* Program constants.                                                      *)
(***************************************************************************)
MAX_FRAMES == 10

None == "None"
NoFile == [exists |-> FALSE]
Unbound == <<>>   \* a local variable not assigned yet

Min(a, b) == IF a < b THEN a ELSE b

(***************************************************************************)
(* str.lower, str.strip, the `in` substring test, os.path.splitext.        *)
(***************************************************************************)
LowerChar(c) ==
    CASE c = "A" -> "a" [] c = "B" -> "b" [] c = "C" -> "c" [] c = "D" -> "d"
      [] c = "E" -> "e" [] c = "F" -> "f" [] c = "G" -> "g" [] c = "H" -> "h"
      [] c = "I" -> "i" [] c = "J" -> "j" [] c = "K" -> "k" [] c = "L" -> "l"
      [] c = "M" -> "m" [] c = "N" -> "n" [] c = "O" -> "o" [] c = "P" -> "p"
      [] c = "Q" -> "q" [] c = "R" -> "r" [] c = "S" -> "s" [] c = "T" -> "t"
      [] c = "U" -> "u" [] c = "V" -> "v" [] c = "W" -> "w" [] c = "X" -> "x"
      [] c = "Y" -> "y" [] c = "Z" -> "z"
      [] OTHER -> c

Lower(s) == [k \in 1..Len(s) |-> LowerChar(s[k])]

\* pat in s
Contains(s, pat) ==
    \E k \in 0..(Len(s) - Len(pat)) : SubSeq(s, k + 1, k + Len(pat)) = pat

IsSpace(c) == c \in {" ", "\t", "\n"}

Strip(s) ==
    LET solid == {k \in 1..Len(s) : ~IsSpace(s[k])}
    IN IF solid = {} THEN <<>>
       ELSE SubSeq(s, CHOOSE k \in solid : \A j \in solid : k <= j,
                      CHOOSE k \in solid : \A j \in solid : k >= j)

\* os.path.splitext(p)[1]: from the last dot of the last path component on,
\* unless that component has no dot or only leading dots before it.
SplitExt(p) ==
    LET seps == {k \in 1..Len(p) : p[k] = "/"}
        base == IF seps = {} THEN 1
                ELSE 1 + CHOOSE k \in seps : \A j \in seps : k >= j
        dots == {k \in base..Len(p) : p[k] = "."}
        last == CHOOSE k \in dots : \A j \in dots : k >= j
    IN IF dots = {} THEN <<>>
       ELSE IF \A k \in base..last : p[k] = "." THEN <<>>
       ELSE SubSeq(p, last, Len(p))

(***************************************************************************)
(* Python float arithmetic of `step = frame_count / max_frames` and        *)
(* `int(i * step)`: IEEE 754 binary64, round to nearest, ties to even.     *)
(* A double x >= 1 has at most 52 fractional bits, so it is held exactly   *)
(* as ip + f1 / 2^26 + f2 / 2^52 with two 26-bit limbs f1, f2.             *)
(***************************************************************************)
LimbBits == 26
Limb == 2 ^ LimbBits

BitLength(n) == CHOOSE k \in 1..30 : 2 ^ (k - 1) <= n /\ n < 2 ^ k

\* The double nearest to ip + f1/2^26 + (f2 + num/den)/2^52, where ip >= 1 and
\* 0 <= num < den: keep 53 significant bits, i.e. drop the low BitLength(ip)-1
\* bits of f2 together with num/den.
RoundToDouble(ip, f1, f2, num, den) ==
    LET u == 2 ^ (BitLength(ip) - 1)
        low == f2 % u
        dropped2 == 2 * (low * den + num)
        odd == (f2 \div u) % 2 = 1
        up == dropped2 > u * den \/ (dropped2 = u * den /\ odd)
        n2 == (f2 - low) + (IF up THEN u ELSE 0)
        n1 == f1 + (n2 \div Limb)
    IN [ip |-> ip + (n1 \div Limb), f1 |-> n1 % Limb, f2 |-> n2 % Limb]

\* a / b for integers a > b >= 1
DoubleDiv(a, b) ==
    LET r0 == a % b
        q1 == (r0 * Limb) \div b
        r1 == (r0 * Limb) % b
        q2 == (r1 * Limb) \div b
        r2 == (r1 * Limb) % b
    IN RoundToDouble(a \div b, q1, q2, r2, b)

\* i * x for an integer i >= 1 and a double x >= 1
DoubleMulInt(i, x) ==
    LET p2 == i * x.f2
        p1 == i * x.f1 + (p2 \div Limb)
    IN RoundToDouble(i * x.ip + (p1 \div Limb), p1 % Limb, p2 % Limb, 0, 1)

\* int(i * step)
IntOfProduct(i, step) == IF i = 0 THEN 0 ELSE DoubleMulInt(i, step).ip

(***************************************************************************)
(* extract_video_frames.  A video is its frame count, the frame numbers    *)
(* whose cap.read() returns ret = False, and the frame numbers whose       *)
(* conversion to an image raises.  A frame is its source index.            *)
(***************************************************************************)
Unopenable == [frame_count |-> 0, undecodable |-> {}, malformed |-> {}]

\* frame_indices, lines 65-69
FrameIndices(frame_count, max_frames) ==
    IF frame_count <= max_frames
    THEN [i \in 1..frame_count |-> i - 1]
    ELSE LET step == DoubleDiv(frame_count, max_frames)
         IN [i \in 1..max_frames |-> IntOfProduct(i - 1, step)]

\* The loop of lines 72-86 over `indices`: a frame that fails to decode is
\* skipped; a frame whose conversion raises ends the loop with the exception.
\* The faulty variant stops at the first frame that fails to decode.
RECURSIVE ReadFramesAbort(_, _)
ReadFramesAbort(video, indices) ==
    IF indices = <<>> THEN [raised |-> FALSE, frames |-> <<>>]
    ELSE IF Head(indices) \in video.undecodable
         THEN [raised |-> FALSE, frames |-> <<>>]
         ELSE IF Head(indices) \in video.malformed
              THEN [raised |-> TRUE, frames |-> <<>>]
              ELSE LET rest == ReadFramesAbort(video, Tail(indices))
                   IN [raised |-> rest.raised,
                       frames |-> <<Head(indices)>> \o rest.frames]

RECURSIVE ReadFrames(_, _)
ReadFrames(video, indices) ==
    IF indices = <<>> THEN [raised |-> FALSE, frames |-> <<>>]
    ELSE IF Head(indices) \in video.undecodable
         THEN ReadFrames(video, Tail(indices))
         ELSE IF Head(indices) \in video.malformed
              THEN [raised |-> TRUE, frames |-> <<>>]
              ELSE LET rest == ReadFrames(video, Tail(indices))
                   IN [raised |-> rest.raised,
                       frames |-> <<Head(indices)>> \o rest.frames]

ExtractError == <<"Error extracting frames: ", "cv2.error">>

\* extract_video_frames(video_path, max_frames) on the bytes found at the path
extract_video_frames(video, max_frames) ==
    IF video.frame_count = 0
    THEN [raised |-> FALSE, frames |-> <<>>, error |-> <<>>]
    ELSE LET got == ReadFrames(video, FrameIndices(video.frame_count, max_frames))
         IN IF got.raised
            THEN [raised |-> TRUE, frames |-> <<>>, error |-> ExtractError]
            ELSE [raised |-> FALSE, frames |-> got.frames, error |-> <<>>]

(***************************************************************************)
(* analyze_with_gemini: the guards, the remote call and the classifier of  *)
(* its failures.                                                           *)
(***************************************************************************)
MsgUnconfigured ==
    <<"Error: Gemini API not configured. Please set GOOGLE_API_KEY environment variable.">>
MsgNoValidFrames == <<"Error: No valid frames could be extracted from the video.">>
MsgNoResponse == <<"Error: Could not generate response from Gemini API.">>
MsgInvalidKey == <<"Error: Invalid Google AI API key.">>
MsgQuota == <<"Error: API quota exceeded. Please try again later.">>
MsgBlocked == <<"Error: Content was blocked by safety filters.">>
ErrorPrefix == <<"Error: ">>

\* the substrings searched for, lines 137-141
Pat_api_key_invalid == <<"a", "p", "i", "_", "k", "e", "y", "_", "i", "n", "v", "a", "l", "i", "d">>
Pat_invalid_api_key == <<"i", "n", "v", "a", "l", "i", "d", " ", "a", "p", "i", " ", "k", "e", "y">>
Pat_quota_exceeded == <<"q", "u", "o", "t", "a", "_", "e", "x", "c", "e", "e", "d", "e", "d">>
Pat_quota == <<"q", "u", "o", "t", "a">>
Pat_safety == <<"s", "a", "f", "e", "t", "y">>
Pat_blocked == <<"b", "l", "o", "c", "k", "e", "d">>

\* the except block of lines 133-144; the faulty variant forgets .lower()
ClassifyErrorCaseSensitive(e) ==
    LET error_msg == e
    IN IF Contains(error_msg, Pat_api_key_invalid) \/ Contains(error_msg, Pat_invalid_api_key)
       THEN MsgInvalidKey
       ELSE IF Contains(error_msg, Pat_quota_exceeded) \/ Contains(error_msg, Pat_quota)
       THEN MsgQuota
       ELSE IF Contains(error_msg, Pat_safety) \/ Contains(error_msg, Pat_blocked)
       THEN MsgBlocked
       ELSE ErrorPrefix \o e

ClassifyError(e) ==
    LET error_msg == Lower(e)
    IN IF Contains(error_msg, Pat_api_key_invalid) \/ Contains(error_msg, Pat_invalid_api_key)
       THEN MsgInvalidKey
       ELSE IF Contains(error_msg, Pat_quota_exceeded) \/ Contains(error_msg, Pat_quota)
       THEN MsgQuota
       ELSE IF Contains(error_msg, Pat_safety) \/ Contains(error_msg, Pat_blocked)
       THEN MsgBlocked
       ELSE ErrorPrefix \o e

\* the module-level `model`, lines 41-45
model == IF GOOGLE_API_KEY # "" THEN "GenerativeModel" ELSE None

\* What model.generate_content can do: answer with a text (possibly empty)
\* or raise an exception with a message.
Replied(text) == [raises |-> FALSE, text |-> text, error |-> <<>>]
Failed(e) == [raises |-> TRUE, text |-> <<>>, error |-> e]

\* analyze_with_gemini(frames, prompt) when the remote call, if it is made,
\* does `outcome`; `invoked` records whether generate_content was called.
\* The faulty variant drops the empty-frames guard of lines 104-105.
analyze_without_frames_guard(frames, prompt, outcome) ==
    IF model = None THEN [text |-> MsgUnconfigured, invoked |-> FALSE]
    ELSE IF outcome.raises
         THEN [text |-> ClassifyError(outcome.error), invoked |-> TRUE]
         ELSE IF outcome.text # <<>>
              THEN [text |-> Strip(outcome.text), invoked |-> TRUE]
              ELSE [text |-> MsgNoResponse, invoked |-> TRUE]

analyze_with_gemini(frames, prompt, outcome) ==
    IF model = None THEN [text |-> MsgUnconfigured, invoked |-> FALSE]
    ELSE IF frames = <<>> THEN [text |-> MsgNoValidFrames, invoked |-> FALSE]
    ELSE IF outcome.raises
         THEN [text |-> ClassifyError(outcome.error), invoked |-> TRUE]
         ELSE IF outcome.text # <<>>
              THEN [text |-> Strip(outcome.text), invoked |-> TRUE]
              ELSE [text |-> MsgNoResponse, invoked |-> TRUE]

(***************************************************************************)
(* Remote failure messages: up to MaxWords words joined by spaces.         *)
(***************************************************************************)
Words ==
    { <<"Q", "u", "o", "t", "a">>,
      <<"e", "x", "c", "e", "e", "d", "e", "d">>,
      <<"Q", "U", "O", "T", "A", "_", "E", "X", "C", "E", "E", "D", "E", "D">>,
      <<"A", "P", "I", "_", "K", "E", "Y", "_", "I", "N", "V", "A", "L", "I", "D">>,
      <<"I", "n", "v", "a", "l", "i", "d">>,
      <<"A", "P", "I">>,
      <<"k", "e", "y">>,
      <<"S", "A", "F", "E", "T", "Y">>,
      <<"u", "n", "b", "l", "o", "c", "k", "e", "d">>,
      <<"t", "i", "m", "e", "o", "u", "t">> }

RECURSIVE Join(_)
Join(ws) ==
    IF ws = <<>> THEN <<>>
    ELSE IF Len(ws) = 1 THEN ws[1]
    ELSE ws[1] \o <<" ">> \o Join(Tail(ws))

Messages == {Join(ws) : ws \in UNION {[1..n -> Words] : n \in 1..MaxWords}}

IdleSampler ==
    [pc |-> "idle", video |-> Unopenable, max_frames |-> MAX_FRAMES,
     frame_indices |-> <<>>, raised |-> FALSE, frames |-> <<>>]
IdleClassifier == [pc |-> "idle", error |-> <<>>, result |-> <<>>]
NoRemote == Replied(<<>>)
EmptyDir == [n \in 1..NumNames |-> NoFile]
NoRequests == <<>>

(***************************************************************************)
(* The temporary directory.  A file is the video bytes it holds (an empty  *)
(* file cannot be opened as a video) and, as history only, the request    *)
(* that created it.                                                        *)
(***************************************************************************)
Bound(v) == <<v>>   \* a local variable holding v
ValueOf(x) == x[1]

NewFile(r) == [exists |-> TRUE, content |-> Unopenable, writer |-> r]

\* tempfile.NamedTemporaryFile creates its file exclusively: it only ever
\* returns a name that does not exist.  The faulty variant reuses names.
AnyName == 1..NumNames
FreshNames == {n \in 1..NumNames : ~fs[n].exists}

\* what cv2.VideoCapture finds at a path
ReadVideo(n) == IF fs[n].exists THEN fs[n].content ELSE Unopenable

DiskFull == <<"[Errno 28] No space left on device">>
FileNotFound == <<"[Errno 2] No such file or directory">>
IOOutcomes == {"ok", "error"}

(***************************************************************************)
(* POST /infer, lines 160-231.                                             *)
(***************************************************************************)
MsgNoVideo == <<"No video file provided">>
MsgNoPrompt == <<"No prompt provided">>
MsgUnsupported ==
    <<"Error: Unsupported video format. Supported formats: .mp4, .avi, .mov, .mkv, .webm">>
MsgNoFrames ==
    <<"Error: Could not extract any frames from the video. Please check the video file.">>

allowed_extensions ==
    { <<".", "m", "p", "4">>,
      <<".", "a", "v", "i">>,
      <<".", "m", "o", "v">>,
      <<".", "m", "k", "v">>,
      <<".", "w", "e", "b", "m">> }

FileExtension(filename) == SplitExt(Lower(filename))

Http400(detail) == [status |-> 400, body |-> detail]
Plain(text) == [status |-> 200, body |-> text]
NoResponse == [status |-> 0, body |-> <<>>]

\* Lines 177-193: what the checks before the temporary file decide.
\* Faulty variants: the extension checked before the credential; the prompt checked
\* without strip().
InferValidationExtFirst(filename, prompt) ==
    IF filename = <<>> THEN [kind |-> "raise", response |-> Http400(MsgNoVideo)]
    ELSE IF Strip(prompt) = <<>> THEN [kind |-> "raise", response |-> Http400(MsgNoPrompt)]
    ELSE IF FileExtension(filename) \notin allowed_extensions
    THEN [kind |-> "return", response |-> Plain(MsgUnsupported)]
    ELSE IF GOOGLE_API_KEY = "" \/ model = None
    THEN [kind |-> "return", response |-> Plain(MsgUnconfigured)]
    ELSE [kind |-> "proceed", response |-> NoResponse]

InferValidationNoStrip(filename, prompt) ==
    IF filename = <<>> THEN [kind |-> "raise", response |-> Http400(MsgNoVideo)]
    ELSE IF prompt = <<>> THEN [kind |-> "raise", response |-> Http400(MsgNoPrompt)]
    ELSE IF GOOGLE_API_KEY = "" \/ model = None
    THEN [kind |-> "return", response |-> Plain(MsgUnconfigured)]
    ELSE IF FileExtension(filename) \notin allowed_extensions
    THEN [kind |-> "return", response |-> Plain(MsgUnsupported)]
    ELSE [kind |-> "proceed", response |-> NoResponse]

InferValidation(filename, prompt) ==
    IF filename = <<>> THEN [kind |-> "raise", response |-> Http400(MsgNoVideo)]
    ELSE IF Strip(prompt) = <<>> THEN [kind |-> "raise", response |-> Http400(MsgNoPrompt)]
    ELSE IF GOOGLE_API_KEY = "" \/ model = None
    THEN [kind |-> "return", response |-> Plain(MsgUnconfigured)]
    ELSE IF FileExtension(filename) \notin allowed_extensions
    THEN [kind |-> "return", response |-> Plain(MsgUnsupported)]
    ELSE [kind |-> "proceed", response |-> NoResponse]

NoPending == [kind |-> "none", value |-> <<>>]
Returning(text) == [kind |-> "return", value |-> text]
Raising(e) == [kind |-> "raise", value |-> e]

NewRequest(endpoint, filename, prompt, upload) ==
    [endpoint |-> endpoint, filename |-> filename, prompt |-> prompt,
     upload |-> upload,
     pc |-> IF endpoint = "infer" THEN "validate" ELSE "tempfile",
     tmp_file |-> Unbound, tmp_video_path |-> Unbound, frames |-> Unbound,
     pending |-> NoPending, response |-> NoResponse,
     \* history variables: was generate_content called, which exception the
     \* handler's `except Exception` caught, and the file operations so far
     invoked |-> FALSE, caught |-> Unbound, trace |-> <<>>]

At(r, endpoint, pc) == req[r].endpoint = endpoint /\ req[r].pc = pc
Others == <<GOOGLE_API_KEY, remote, sampler, classifier>>

\* lines 177-193
InferValidate(r) ==
    /\ At(r, "infer", "validate")
    /\ LET v == InferValidation(req[r].filename, req[r].prompt)
       IN req' = [req EXCEPT
              ![r].pc = IF v.kind = "proceed" THEN "tempfile" ELSE "done",
              ![r].response = v.response]
    /\ UNCHANGED <<fs, Others>>

\* line 196; an OSError here reaches the handler of lines 227-231
InferCreateTemp(r) ==
    /\ At(r, "infer", "tempfile")
    /\ \E io \in IOOutcomes :
          IF io = "ok"
          THEN \E n \in FreshNames :
                  /\ fs' = [fs EXCEPT ![n] = NewFile(r)]
                  /\ req' = [req EXCEPT ![r].pc = "save",
                                        ![r].tmp_file = Bound(n),
                                        ![r].trace = Append(@, "create")]
          ELSE /\ fs' = fs
               /\ req' = [req EXCEPT ![r].pc = "done",
                                     ![r].caught = Bound(DiskFull),
                                     ![r].response = Plain(ErrorPrefix \o DiskFull)]
    /\ UNCHANGED Others

\* lines 198-200; when read() or write() raises, the `with` block closes the
\* file (delete=False keeps it) and the handler of lines 227-231 answers
InferSave(r) ==
    /\ At(r, "infer", "save")
    /\ \E io \in IOOutcomes :
          IF io = "ok"
          THEN /\ fs' = [fs EXCEPT ![ValueOf(req[r].tmp_file)].content = req[r].upload]
               /\ req' = [req EXCEPT ![r].pc = "extract",
                                     ![r].tmp_video_path = req[r].tmp_file,
                                     ![r].trace = Append(@, "write")]
          ELSE /\ fs' = fs
               /\ req' = [req EXCEPT ![r].pc = "done",
                                     ![r].caught = Bound(DiskFull),
                                     ![r].response = Plain(ErrorPrefix \o DiskFull)]
    /\ UNCHANGED Others

\* lines 204-207
InferExtract(r) ==
    /\ At(r, "infer", "extract")
    /\ LET got == extract_video_frames(ReadVideo(ValueOf(req[r].tmp_video_path)),
                                       MAX_FRAMES)
       IN req' = [req EXCEPT
              ![r].trace = Append(@, "extract"),
              ![r].frames = IF got.raised THEN Unbound ELSE Bound(got.frames),
              ![r].pending = IF got.raised THEN Raising(got.error)
                             ELSE IF got.frames = <<>> THEN Returning(MsgNoFrames)
                             ELSE NoPending,
              ![r].pc = IF got.raised \/ got.frames = <<>> THEN "finally"
                        ELSE "analyze"]
    /\ UNCHANGED <<fs, Others>>

\* lines 210-216
InferAnalyze(r) ==
    /\ At(r, "infer", "analyze")
    /\ LET out == analyze_with_gemini(ValueOf(req[r].frames), req[r].prompt, remote)
       IN req' = [req EXCEPT
              ![r].trace = Append(@, "analyze"),
              ![r].invoked = out.invoked,
              ![r].pending = Returning(out.text),
              ![r].pc = "finally"]
    /\ UNCHANGED <<fs, Others>>

\* lines 218-231: os.unlink, whose failure is swallowed; then the pending
\* return value, or the pending exception turned into "Error: <message>"
InferFinally(r) ==
    /\ At(r, "infer", "finally")
    /\ LET n == ValueOf(req[r].tmp_video_path)
       IN /\ fs' = [fs EXCEPT ![n] = NoFile]
          /\ req' = [req EXCEPT
                 ![r].trace = IF fs[n].exists THEN Append(@, "unlink") ELSE @,
                 ![r].caught = IF req[r].pending.kind = "raise"
                               THEN Bound(req[r].pending.value) ELSE @,
                 ![r].response = IF req[r].pending.kind = "raise"
                                 THEN Plain(ErrorPrefix \o req[r].pending.value)
                                 ELSE Plain(req[r].pending.value),
                 ![r].pc = "done"]
    /\ UNCHANGED Others

(***************************************************************************)
(* POST /test, lines 233-276.                                              *)
(***************************************************************************)
TestOk(text, frames) ==
    [status |-> 200,
     body |-> [success |-> TRUE, response |-> text, frames_analyzed |-> Len(frames)]]
TestFailed(e) == [status |-> 200, body |-> [success |-> FALSE, error |-> e]]

\* line 245
TestCreateTemp(r) ==
    /\ At(r, "test", "tempfile")
    /\ \E io \in IOOutcomes :
          IF io = "ok"
          THEN \E n \in FreshNames :
                  /\ fs' = [fs EXCEPT ![n] = NewFile(r)]
                  /\ req' = [req EXCEPT ![r].pc = "save",
                                        ![r].tmp_file = Bound(n),
                                        ![r].trace = Append(@, "create")]
          ELSE /\ fs' = fs
               /\ req' = [req EXCEPT ![r].pc = "done",
                                     ![r].caught = Bound(DiskFull),
                                     ![r].response = TestFailed(DiskFull)]
    /\ UNCHANGED Others

\* lines 246-248
TestSave(r) ==
    /\ At(r, "test", "save")
    /\ \E io \in IOOutcomes :
          IF io = "ok"
          THEN /\ fs' = [fs EXCEPT ![ValueOf(req[r].tmp_file)].content = req[r].upload]
               /\ req' = [req EXCEPT ![r].pc = "extract",
                                     ![r].tmp_video_path = req[r].tmp_file,
                                     ![r].trace = Append(@, "write")]
          ELSE /\ fs' = fs
               /\ req' = [req EXCEPT ![r].pc = "done",
                                     ![r].caught = Bound(DiskFull),
                                     ![r].response = TestFailed(DiskFull)]
    /\ UNCHANGED Others

\* line 251; an exception goes straight to the handler of lines 270-276
TestExtract(r) ==
    /\ At(r, "test", "extract")
    /\ LET got == extract_video_frames(ReadVideo(ValueOf(req[r].tmp_video_path)),
                                       MAX_FRAMES)
       IN req' = [req EXCEPT
              ![r].trace = Append(@, "extract"),
              ![r].frames = IF got.raised THEN Unbound ELSE Bound(got.frames),
              ![r].caught = IF got.raised THEN Bound(got.error) ELSE @,
              ![r].response = IF got.raised THEN TestFailed(got.error) ELSE @,
              ![r].pc = IF got.raised THEN "done" ELSE "analyze"]
    /\ UNCHANGED <<fs, Others>>

\* line 254
TestAnalyze(r) ==
    /\ At(r, "test", "analyze")
    /\ LET out == analyze_with_gemini(ValueOf(req[r].frames), req[r].prompt, remote)
       IN req' = [req EXCEPT
              ![r].trace = Append(@, "analyze"),
              ![r].invoked = out.invoked,
              ![r].pending = Returning(out.text),
              ![r].pc = "unlink"]
    /\ UNCHANGED <<fs, Others>>

\* lines 257-268; os.unlink of a missing file raises FileNotFoundError
TestUnlink(r) ==
    /\ At(r, "test", "unlink")
    /\ LET n == ValueOf(req[r].tmp_video_path)
       IN /\ fs' = [fs EXCEPT ![n] = NoFile]
          /\ req' = [req EXCEPT
                 ![r].trace = IF fs[n].exists THEN Append(@, "unlink") ELSE @,
                 ![r].caught = IF fs[n].exists THEN @ ELSE Bound(FileNotFound),
                 ![r].response =
                     IF fs[n].exists
                     THEN TestOk(req[r].pending.value, ValueOf(req[r].frames))
                     ELSE TestFailed(FileNotFound),
                 ![r].pc = "done"]
    /\ UNCHANGED Others

(***************************************************************************)
(* The inputs, and the two specifications of the handlers: one request     *)
(* with every kind of input, and NumRequests requests side by side.        *)
(***************************************************************************)
Filenames ==
    { <<>>,
      <<"c", ".", "m", "p", "4">>,
      <<"c", ".", "M", "O", "V">>,
      <<"c", ".", "t", "x", "t">>,
      <<"c">>,
      <<".", "m", "p", "4">> }
Prompts == { <<>>, <<" ", " ", " ">>, <<"w">>, <<" ", "w">> }
Uploads ==
    { Unopenable,
      [frame_count |-> 2, undecodable |-> {}, malformed |-> {}],
      [frame_count |-> 2, undecodable |-> {0, 1}, malformed |-> {}],
      [frame_count |-> 12, undecodable |-> {1}, malformed |-> {}],
      [frame_count |-> 2, undecodable |-> {}, malformed |-> {1}] }
RemoteOutcomes ==
    { Replied(<<>>),
      Replied(<<" ", "A dog runs.", "\n">>),
      Failed(<<"Q", "u", "o", "t", "a", " ", "e", "x", "c", "e", "e", "d", "e", "d">>),
      Failed(<<"A", "P", "I", "_", "K", "E", "Y", "_", "I", "N", "V", "A", "L", "I", "D">>),
      Failed(<<"S", "A", "F", "E", "T", "Y">>),
      Failed(<<"t", "i", "m", "e", "o", "u", "t">>) }
Keys == {"", "AIza"}

Requests(ids) ==
    [ids -> {NewRequest(e, f, p, u) :
                e \in {"infer", "test"}, f \in Filenames, p \in Prompts, u \in Uploads}]

Init ==
    /\ GOOGLE_API_KEY \in Keys
    /\ remote \in RemoteOutcomes
    /\ fs = EmptyDir
    /\ req \in Requests({1})
    /\ sampler = IdleSampler
    /\ classifier = IdleClassifier

ConcurrentRequests ==
    [1..NumRequests ->
        {NewRequest(e, <<"c", ".", "m", "p", "4">>, <<"w">>, u) :
            e \in {"infer", "test"},
            u \in {[frame_count |-> 2, undecodable |-> {}, malformed |-> {}],
                   [frame_count |-> 2, undecodable |-> {}, malformed |-> {1}]}}]

ConcurrentInit ==
    /\ GOOGLE_API_KEY = "AIza"
    /\ remote = Replied(<<"A dog runs.">>)
    /\ fs = EmptyDir
    /\ req \in ConcurrentRequests
    /\ sampler = IdleSampler
    /\ classifier = IdleClassifier

Next ==
    \/ \E r \in DOMAIN req : InferValidate(r)
    \/ \E r \in DOMAIN req : InferCreateTemp(r)
    \/ \E r \in DOMAIN req : InferSave(r)
    \/ \E r \in DOMAIN req : InferExtract(r)
    \/ \E r \in DOMAIN req : InferAnalyze(r)
    \/ \E r \in DOMAIN req : InferFinally(r)
    \/ \E r \in DOMAIN req : TestCreateTemp(r)
    \/ \E r \in DOMAIN req : TestSave(r)
    \/ \E r \in DOMAIN req : TestExtract(r)
    \/ \E r \in DOMAIN req : TestAnalyze(r)
    \/ \E r \in DOMAIN req : TestUnlink(r)

Spec == Init /\ [][Next]_vars
SpecConcurrent == ConcurrentInit /\ [][Next]_vars

(***************************************************************************)
(* extract_video_frames on its own: one call on a video of up to           *)
(* MaxFrameCount frames with a cap of up to MaxCap.                        *)
(***************************************************************************)
SamplerVideos ==
    UNION {{[frame_count |-> t, undecodable |-> bad, malformed |-> {}] :
               bad \in SUBSET (0..(Min(t, MaxBad) - 1)) \cup {0..(t - 1)}} :
           t \in 0..MaxFrameCount}

SamplerInit ==
    /\ GOOGLE_API_KEY = ""
    /\ remote = NoRemote
    /\ fs = EmptyDir
    /\ req = NoRequests
    /\ classifier = IdleClassifier
    /\ \E v \in SamplerVideos, m \in 1..MaxCap :
          sampler = [pc |-> "call", video |-> v, max_frames |-> m,
                        frame_indices |-> <<>>, raised |-> FALSE, frames |-> <<>>]

SampleFrames ==
    /\ sampler.pc = "call"
    /\ LET got == extract_video_frames(sampler.video, sampler.max_frames)
       IN sampler' = [sampler EXCEPT
              !.pc = "returned",
              !.frame_indices =
                  IF sampler.video.frame_count = 0 THEN <<>>
                  ELSE FrameIndices(sampler.video.frame_count, sampler.max_frames),
              !.raised = got.raised,
              !.frames = got.frames]
    /\ UNCHANGED <<GOOGLE_API_KEY, remote, fs, req, classifier>>

SamplerNext == SampleFrames
SpecSampler == SamplerInit /\ [][SamplerNext]_vars

(***************************************************************************)
(* The classifier on its own: one failure of the remote call.              *)
(***************************************************************************)
ClassifierInit ==
    /\ GOOGLE_API_KEY = ""
    /\ remote = NoRemote
    /\ fs = EmptyDir
    /\ req = NoRequests
    /\ sampler = IdleSampler
    /\ \E e \in Messages :
          classifier = [pc |-> "raised", error |-> e, result |-> <<>>]

Classify ==
    /\ classifier.pc = "raised"
    /\ classifier' = [classifier EXCEPT
           !.pc = "classified", !.result = ClassifyError(classifier.error)]
    /\ UNCHANGED <<GOOGLE_API_KEY, remote, fs, req, sampler>>

ClassifierNext == Classify
SpecClassifier == ClassifierInit /\ [][ClassifierNext]_vars

(***************************************************************************)
(* Claims about the sampler.                                               *)
(***************************************************************************)
\* The reference of the specification: exact arithmetic.
ReferenceIndices(t, m) ==
    IF t <= m THEN [i \in 1..t |-> i - 1]
    ELSE [i \in 1..m |-> ((i - 1) * t) \div m]

\* C5: for every frame count T >= 1 and cap M >= 1 the selected frame indices
\* are 0..T-1 when T <= M and floor(i*T/M), i = 0..M-1, otherwise.
C5_IndicesMatchReference ==
    (sampler.pc = "returned" /\ sampler.video.frame_count >= 1)
        => sampler.frame_indices =
               ReferenceIndices(sampler.video.frame_count, sampler.max_frames)

StrictlyIncreasing(s) == \A k \in 1..(Len(s) - 1) : s[k] < s[k + 1]
InRange(s, t) == \A k \in 1..Len(s) : 0 <= s[k] /\ s[k] <= t - 1
\* how many of the selected frames failed to decode
FailedToDecode ==
    Cardinality({k \in 1..Len(sampler.frame_indices) :
                    sampler.frame_indices[k] \in sampler.video.undecodable})

\* C6 as stated: the returned length is T when T <= M; when T > M it is M less
\* the frames that failed to decode, with strictly increasing indices inside
\* [0, T-1].
C6_LengthAsStated ==
    LET t == sampler.video.frame_count
        m == sampler.max_frames
    IN sampler.pc = "returned" =>
          /\ t <= m => Len(sampler.frames) = t
          /\ t > m => /\ Len(sampler.frames) = m - FailedToDecode
                      /\ StrictlyIncreasing(sampler.frames)
                      /\ InRange(sampler.frames, t)

\* C6 amended: in both branches the returned length is min(T, M) less the
\* selected frames that failed to decode; the returned indices are strictly
\* increasing, lie in [0, T-1], and start at frame 0 unless frame 0 failed.
C6_LengthLessFailures ==
    LET t == sampler.video.frame_count
        m == sampler.max_frames
    IN sampler.pc = "returned" =>
          /\ Len(sampler.frames) = Min(t, m) - FailedToDecode
          /\ StrictlyIncreasing(sampler.frames)
          /\ InRange(sampler.frames, t)
          /\ (t >= 1 /\ 0 \notin sampler.video.undecodable)
                => (sampler.frames # <<>> /\ sampler.frames[1] = 0)

C6_Witness ==
    /\ sampler.pc = "returned"
    /\ sampler.video.frame_count > sampler.max_frames
    /\ FailedToDecode = 2
    /\ Len(sampler.frames) = sampler.max_frames - 2
    /\ Len(sampler.frames) >= 2

(***************************************************************************)
(* Claims about the classifier.                                            *)
(***************************************************************************)
Pat_quota_exceeded_words ==
    Pat_quota \o <<" ">> \o <<"e", "x", "c", "e", "e", "d", "e", "d">>
Mentions(e, pat) == Contains(Lower(e), pat)
MentionsKey(e) == Mentions(e, Pat_api_key_invalid) \/ Mentions(e, Pat_invalid_api_key)
MentionsQuota(e) == Mentions(e, Pat_quota_exceeded) \/ Mentions(e, Pat_quota)
MentionsSafety(e) == Mentions(e, Pat_safety) \/ Mentions(e, Pat_blocked)

\* C7 as stated: a failure message containing "quota exceeded" is always
\* classified QuotaExceeded and never anything else; api_key_invalid / invalid
\* api key give InvalidCredential, quota_exceeded / quota give QuotaExceeded,
\* safety / blocked give ContentBlocked, anything else UnknownBackendError
\* with the original message (the general mapping read in the code's order).
C7_ClassesAsStated ==
    LET e == classifier.error
        result == classifier.result
    IN classifier.pc = "classified" =>
          /\ Mentions(e, Pat_quota_exceeded_words) => result = MsgQuota
          /\ MentionsKey(e) => result = MsgInvalidKey
          /\ (~MentionsKey(e) /\ MentionsQuota(e)) => result = MsgQuota
          /\ (~MentionsKey(e) /\ ~MentionsQuota(e) /\ MentionsSafety(e))
                => result = MsgBlocked
          /\ ~(MentionsKey(e) \/ MentionsQuota(e) \/ MentionsSafety(e))
                => result = ErrorPrefix \o e

\* C7 amended: the classes are tried in the order InvalidCredential,
\* QuotaExceeded, ContentBlocked and the first that matches wins; a message
\* containing "quota exceeded" is QuotaExceeded unless it also names an invalid
\* key, and is never UnknownBackendError.
C7_ClassesInOrder ==
    LET e == classifier.error
        result == classifier.result
    IN classifier.pc = "classified" =>
          /\ Mentions(e, Pat_quota_exceeded_words) =>
                /\ result # ErrorPrefix \o e
                /\ ~MentionsKey(e) => result = MsgQuota
          /\ MentionsKey(e) => result = MsgInvalidKey
          /\ (~MentionsKey(e) /\ MentionsQuota(e)) => result = MsgQuota
          /\ (~MentionsKey(e) /\ ~MentionsQuota(e) /\ MentionsSafety(e))
                => result = MsgBlocked
          /\ ~(MentionsKey(e) \/ MentionsQuota(e) \/ MentionsSafety(e))
                => result = ErrorPrefix \o e

C7_Witness ==
    /\ classifier.pc = "classified"
    /\ Mentions(classifier.error, Pat_quota_exceeded_words)
    /\ ~Contains(classifier.error, Pat_quota)
    /\ ~MentionsKey(classifier.error)
    /\ classifier.result = MsgQuota

(***************************************************************************)
(* Claims about the handlers.                                              *)
(***************************************************************************)
Done(r, endpoint) == req[r].endpoint = endpoint /\ req[r].pc = "done"
Exists(path) == path # Unbound /\ fs[ValueOf(path)].exists
Position(s, x) == CHOOSE k \in 1..Len(s) : s[k] = x
Occurs(s, x) == \E k \in 1..Len(s) : s[k] = x

\* C1: whatever way a POST /infer request completes, no temporary file it
\* created exists once it has completed.
C1_InferTempFileRemoved ==
    \A r \in DOMAIN req : Done(r, "infer") => ~Exists(req[r].tmp_file)

\* C2 as stated: with no credential configured, every POST /infer call, whatever
\* its filename, prompt and extension, answers BackendUnconfigured and never
\* calls the remote model.
C2_UnconfiguredAlways ==
    GOOGLE_API_KEY = "" =>
        \A r \in DOMAIN req :
            /\ ~req[r].invoked
            /\ Done(r, "infer") => req[r].response = Plain(MsgUnconfigured)

\* C2 amended: with no credential configured the remote model is never called,
\* and every POST /infer call with a non-empty filename and a non-blank prompt
\* answers BackendUnconfigured, whatever its extension, without creating a
\* temporary file; an empty filename or a blank prompt gets its HTTP 400 first.
C2_UnconfiguredAfterValidation ==
    GOOGLE_API_KEY = "" =>
        \A r \in DOMAIN req :
            /\ ~req[r].invoked
            /\ (Done(r, "infer") /\ req[r].filename # <<>> /\ Strip(req[r].prompt) # <<>>)
                  => /\ req[r].response = Plain(MsgUnconfigured)
                     /\ req[r].tmp_file = Unbound
            /\ (Done(r, "infer") /\ (req[r].filename = <<>> \/ Strip(req[r].prompt) = <<>>))
                  => req[r].response.status = 400

C2_Witness ==
    /\ GOOGLE_API_KEY = ""
    /\ \E r \in DOMAIN req :
          /\ Done(r, "infer")
          /\ FileExtension(req[r].filename) \notin allowed_extensions
          /\ req[r].response = Plain(MsgUnconfigured)

BadFilename(r) == req[r].filename = <<>>
BadPrompt(r) == Strip(req[r].prompt) = <<>>
BadExtension(r) == FileExtension(req[r].filename) \notin allowed_extensions
Untouched(r) ==
    /\ req[r].tmp_file = Unbound
    /\ req[r].trace = <<>>
    /\ ~req[r].invoked
    /\ \A n \in 1..NumNames : ~fs[n].exists

\* C3 as stated: an empty filename, a blank or whitespace-only prompt and an
\* extension outside the allowed set each yield their own message, and in each
\* case no temporary file is created and the remote model is not called.
C3_ValidationAsStated ==
    \A r \in DOMAIN req : Done(r, "infer") =>
        /\ Cardinality({MsgNoVideo, MsgNoPrompt, MsgUnsupported}) = 3
        /\ BadFilename(r) => req[r].response = Http400(MsgNoVideo)
        /\ (~BadFilename(r) /\ BadPrompt(r)) => req[r].response = Http400(MsgNoPrompt)
        /\ (~BadFilename(r) /\ ~BadPrompt(r) /\ BadExtension(r))
              => req[r].response = Plain(MsgUnsupported)
        /\ (BadFilename(r) \/ BadPrompt(r) \/ BadExtension(r)) => Untouched(r)

\* C3 amended: the extension's own message is given when the credential is
\* configured; without a credential a request with a disallowed extension gets
\* the BackendUnconfigured message instead.  Nothing else changes.
C3_ValidationWhenConfigured ==
    \A r \in DOMAIN req : Done(r, "infer") =>
        /\ Cardinality({MsgNoVideo, MsgNoPrompt, MsgUnsupported}) = 3
        /\ BadFilename(r) => req[r].response = Http400(MsgNoVideo)
        /\ (~BadFilename(r) /\ BadPrompt(r)) => req[r].response = Http400(MsgNoPrompt)
        /\ (~BadFilename(r) /\ ~BadPrompt(r) /\ BadExtension(r))
              => req[r].response =
                    IF GOOGLE_API_KEY # "" THEN Plain(MsgUnsupported)
                    ELSE Plain(MsgUnconfigured)
        /\ (BadFilename(r) \/ BadPrompt(r) \/ BadExtension(r)) => Untouched(r)

C3_Witness ==
    \E r \in DOMAIN req :
        /\ Done(r, "infer")
        /\ req[r].filename # <<>>
        /\ req[r].prompt # <<>> /\ BadPrompt(r)
        /\ req[r].response = Http400(MsgNoPrompt)
        /\ Untouched(r)

\* C4: when frame extraction yields an empty frame list the remote model is
\* never called (on either endpoint), and POST /infer returns its "could not
\* extract any frames" message.
C4_EmptyFramesNeverAnalyzed ==
    \A r \in DOMAIN req : req[r].frames = Bound(<<>>) =>
        /\ ~req[r].invoked
        /\ Done(r, "infer") => req[r].response = Plain(MsgNoFrames)

C4_Witness ==
    \E r \in DOMAIN req :
        /\ Done(r, "infer")
        /\ req[r].upload.frame_count > 0
        /\ req[r].frames = Bound(<<>>)
        /\ req[r].response = Plain(MsgNoFrames)

\* C8: the response of POST /infer never contains the message of an exception
\* raised by frame extraction or by temporary-file I/O (the one place raw
\* exception text may appear is the remote call's UnknownBackendError).
C8_NoRawExceptionText ==
    \A r \in DOMAIN req :
        (Done(r, "infer") /\ req[r].caught # Unbound)
            => ~Contains(req[r].response.body, ValueOf(req[r].caught))

\* a request between the creation of its temporary file and its deletion
Holding(r) == req[r].pc \in {"save", "extract", "analyze", "finally", "unlink"}

\* C9: no two requests in flight hold the same temporary path, a request about
\* to sample finds at its path the bytes it wrote itself, and a request about
\* to delete deletes only a file it created.
C9_OwnTempFile ==
    /\ \A r1, r2 \in DOMAIN req :
          (r1 # r2 /\ Holding(r1) /\ Holding(r2)) => req[r1].tmp_file # req[r2].tmp_file
    /\ \A r \in DOMAIN req :
          /\ req[r].pc = "extract" =>
                /\ Exists(req[r].tmp_video_path)
                /\ fs[ValueOf(req[r].tmp_video_path)].writer = r
                /\ fs[ValueOf(req[r].tmp_video_path)].content = req[r].upload
          /\ (req[r].pc \in {"finally", "unlink"} /\ Exists(req[r].tmp_video_path))
                => fs[ValueOf(req[r].tmp_video_path)].writer = r

\* one request re-uses the name another has deleted while a third still holds
\* its own file
C9_Witness ==
    \E r1, r2 \in DOMAIN req :
        /\ r1 # r2
        /\ req[r1].pc = "done" /\ Occurs(req[r1].trace, "unlink")
        /\ req[r2].pc = "extract"
        /\ req[r1].tmp_file = req[r2].tmp_file
        /\ fs[ValueOf(req[r2].tmp_video_path)].writer = r2

\* C10: within one POST /test request frame extraction precedes the analysis
\* call, and the temporary file is deleted after both on every exit path.
C10_TestDeletesOnEveryPath ==
    \A r \in DOMAIN req : Done(r, "test") =>
        LET t == req[r].trace
        IN /\ Occurs(t, "analyze") =>
                (Occurs(t, "extract") /\ Position(t, "extract") < Position(t, "analyze"))
           /\ Occurs(t, "create") =>
                (t[Len(t)] = "unlink" /\ ~Exists(req[r].tmp_file))

====
